---- MODULE Spec2Model ----
(***************************************************************************)
(* Model of the dialogue extraction / audio assembly pipeline of podfeed1: *)
(*   src/voice.py          VoiceSynthesizer (extract_dialogue,             *)
(*                         text_to_speech, concatenate_audio_pydub,        *)
(*                         _generate_main_audio, generate_audio)           *)
(*   src/sound_effects.py  SoundEffects (process_script_for_sfx,           *)
(*                         generate_sfx, insert_sfx_into_audio)            *)
(*                                                                         *)
(* Text is modelled as a sequence of tokens (words, " ", ":", "[", "]",    *)
(* and "NL" for the newline character); a script is one such sequence.     *)
(***************************************************************************)
EXTENDS Integers, Sequences, FiniteSets, TLC

VARIABLES
    \* ---- harness state of the pure text functions (ParseSpec) ----
    transcript,      \* the script handed to extract_dialogue / process_script_for_sfx
    parsed,          \* "no" before the call, "yes" after
    turns,           \* value returned by extract_dialogue
    cues,            \* value returned by process_script_for_sfx
    \* ---- one generate_audio invocation after the other (Spec) ----
    pc,              \* "idle", "loop", "tts_wait", "sfx", "sfx_wait", "done"
    runs,            \* generate_audio invocations started so far
    job,             \* the arguments of the running invocation
    final_voice1_id, \* _generate_main_audio locals
    final_voice2_id,
    dialogue_turns,
    turn_i,          \* 1-based index of the turn the loop is at (Python's i + 1)
    segment_files,   \* segment numbers whose paths are in segment_files, in order
    errors,
    temp_dir,        \* TRUE while this invocation's scratch directory exists
    scratch,         \* the files in temp_dir: segment number -> content
    calls,           \* the text_to_speech calls of this invocation, in call order
    combined,        \* the track concatenate_audio_pydub built
    main_audio_path, \* value _generate_main_audio returned
    sfx_cues,        \* generate_audio / insert_sfx_into_audio locals
    cue_i,           \* 1-based index of the cue the overlay loop is at
    overlays,        \* the overlays applied to main_audio, in order
    sfx_calls,       \* the generate_sfx calls of this invocation, in call order
    ret,             \* value generate_audio returned ("pending" while it runs)
    output_writes,   \* exports to output_path this invocation has made
    output_file,     \* the file at output_path: "absent", "audio", "empty"
    cache,           \* the files in cache/sfx: prompt -> "absent", "audio", "empty"
    \* ---- two invocations overlaying effects at the same time (RaceSpec) ----
    invocation,      \* per invocation: its cues, the cue it is at, where it is
    cache_files      \* the files in cache/sfx, chunk by chunk

textVars == <<transcript, parsed, turns, cues>>

pipeVars ==
    <<pc, runs, job, final_voice1_id, final_voice2_id, dialogue_turns, turn_i, segment_files,
      errors, temp_dir, scratch, calls, combined, main_audio_path, sfx_cues, cue_i, overlays,
      sfx_calls, ret, output_writes, output_file, cache>>

raceVars == <<invocation, cache_files>>

vars == <<textVars, pipeVars, raceVars>>

(***************************************************************************)
(* Text helpers                                                            *)
(***************************************************************************)
NL == "NL"

\* str.lower() / re.IGNORECASE on one token
Lower(t) ==
    CASE t = "Joe" -> "joe"
      [] t = "JOE" -> "joe"
      [] t = "Alex" -> "alex"
      [] t = "ALEX" -> "alex"
      [] t = "Rogan" -> "rogan"
      [] t = "Cooper" -> "cooper"
      [] t = "Mic" -> "mic"
      [] t = "Drop" -> "drop"
      [] t = "Drum" -> "drum"
      [] t = "Roll" -> "roll"
      [] t = "Laugh" -> "laugh"
      [] t = "EXIT" -> "exit"
      [] t = "Hi" -> "hi"
      [] t = "Hello" -> "hello"
      [] t = "Great" -> "great"
      [] t = "EPISODE" -> "episode"
      [] t = "TITLE" -> "title"
      [] t = "Test" -> "test"
      [] t = "Boo" -> "boo"
      [] OTHER -> t

LowerSeq(s) == [k \in 1..Len(s) |-> Lower(s[k])]

IsSpace(t) == t = " "

RECURSIVE LStrip(_)
LStrip(s) == IF s # <<>> /\ IsSpace(Head(s)) THEN LStrip(Tail(s)) ELSE s

RECURSIVE RStrip(_)
RStrip(s) ==
    IF s # <<>> /\ IsSpace(s[Len(s)]) THEN RStrip(SubSeq(s, 1, Len(s) - 1)) ELSE s

\* str.strip()
Strip(s) == RStrip(LStrip(s))

\* str.split("\n"): a script always splits into at least one line
RECURSIVE SplitFrom(_, _, _)
SplitFrom(s, k, cur) ==
    IF k > Len(s) THEN <<cur>>
    ELSE IF s[k] = NL THEN <<cur>> \o SplitFrom(s, k + 1, <<>>)
    ELSE SplitFrom(s, k + 1, Append(cur, s[k]))

SplitLines(s) == SplitFrom(s, 1, <<>>)

\* first index >= k of s that holds no whitespace (Len(s)+1 when none): regex \s*
RECURSIVE SkipSpaces(_, _)
SkipSpaces(s, k) ==
    IF k <= Len(s) /\ IsSpace(s[k]) THEN SkipSpaces(s, k + 1) ELSE k

\* re.match(rf"^\s*{re.escape(name)}\s*:", line, re.IGNORECASE): the match's
\* end (index of the colon), or 0 when there is no match
MatchEnd(name, line) ==
    LET a == SkipSpaces(line, 1)
        b == a + Len(name)
        named == /\ b - 1 <= Len(line)
                 /\ \A j \in 1..Len(name) : Lower(line[a + j - 1]) = Lower(name[j])
        c == IF named THEN SkipSpaces(line, b) ELSE 0
    IN  IF named /\ c <= Len(line) /\ line[c] = ":" THEN c ELSE 0

(***************************************************************************)
(* VoiceSynthesizer.extract_dialogue                                       *)
(***************************************************************************)
\* mutant of ParseInit: the parser starts with a speaker already open
ParseInit_DefaultSpeaker ==
    [dialogue_turns |-> <<>>, current_speaker |-> "host1", current_line |-> <<>>]

\* the loop's locals before the first line
ParseInit == [dialogue_turns |-> <<>>, current_speaker |-> "None", current_line |-> <<>>]

\* mutant of Flush: the open turn is saved also when it has no text
Flush_KeepsEmpty(st) ==
    IF st.current_speaker # "None"
    THEN Append(st.dialogue_turns,
                [speaker |-> st.current_speaker, text |-> Strip(st.current_line)])
    ELSE st.dialogue_turns

\* "if current_speaker and current_line: dialogue_turns.append(...)"
Flush(st) ==
    IF st.current_speaker # "None" /\ st.current_line # <<>>
    THEN Append(st.dialogue_turns,
                [speaker |-> st.current_speaker, text |-> Strip(st.current_line)])
    ELSE st.dialogue_turns

\* the text after the matched prefix, stripped
AfterLabel(line_strip, end) == Strip(SubSeq(line_strip, end + 1, Len(line_strip)))

\* mutant of StartTurn: the open turn is not saved when a new speaker starts
StartTurn_NoFlush(st, line_strip, is_host1, is_host2) ==
    [dialogue_turns |-> st.dialogue_turns,
     current_speaker |-> IF is_host1 > 0 THEN "host1" ELSE "host2",
     current_line |-> IF is_host1 > 0 THEN AfterLabel(line_strip, is_host1)
                      ELSE AfterLabel(line_strip, is_host2)]

\* a matched speaker line: save the open turn, start the new speaker
StartTurn(st, line_strip, is_host1, is_host2) ==
    [dialogue_turns |-> Flush(st),
     current_speaker |-> IF is_host1 > 0 THEN "host1" ELSE "host2",
     current_line |-> IF is_host1 > 0 THEN AfterLabel(line_strip, is_host1)
                      ELSE AfterLabel(line_strip, is_host2)]

\* mutant of Continue: continuation lines are joined without the separator
Continue_NoSeparator(st, line_strip, host1_name, host2_name) ==
    IF st.current_speaker # "None" /\ line_strip # <<>>
    THEN [st EXCEPT !.current_line = @ \o line_strip]
    ELSE st

\* mutant of Continue: the unmatched line replaces the accumulated text
Continue_KeepsLast(st, line_strip, host1_name, host2_name) ==
    IF st.current_speaker # "None" /\ line_strip # <<>>
    THEN [st EXCEPT !.current_line = line_strip]
    ELSE st

\* an unmatched line: accumulate it for the current speaker
Continue(st, line_strip, host1_name, host2_name) ==
    IF st.current_speaker # "None" /\ line_strip # <<>>
    THEN IF ~(MatchEnd(host1_name, line_strip) > 0 \/ MatchEnd(host2_name, line_strip) > 0)
         THEN [st EXCEPT !.current_line = @ \o <<" ">> \o line_strip]
         ELSE st
    ELSE st

\* one iteration of "for line in lines"
ParseLine(st, line, host1_name, host2_name) ==
    LET line_strip == Strip(line)
        is_host1 == MatchEnd(host1_name, line_strip)
        is_host2 == MatchEnd(host2_name, line_strip)
    IN  IF line_strip = <<>> THEN st
        ELSE IF is_host1 > 0 \/ is_host2 > 0
             THEN StartTurn(st, line_strip, is_host1, is_host2)
             ELSE Continue(st, line_strip, host1_name, host2_name)

RECURSIVE ParseLines(_, _, _, _, _)
ParseLines(st, lines, k, host1_name, host2_name) ==
    IF k > Len(lines) THEN st
    ELSE ParseLines(ParseLine(st, lines[k], host1_name, host2_name),
                    lines, k + 1, host1_name, host2_name)

extract_dialogue(script, host1_name, host2_name) ==
    Flush(ParseLines(ParseInit, SplitLines(script), 1, host1_name, host2_name))

(***************************************************************************)
(* SoundEffects.process_script_for_sfx                                     *)
(***************************************************************************)
KnownCues ==
    { <<"door", " ", "slam">>, <<"applause">>, <<"laugh">>, <<"drum", " ", "roll">>,
      <<"suspense">>, <<"fight">>, <<"exit">>, <<"mic", " ", "drop">> }

sfx_mapping ==
    [c \in KnownCues |->
        CASE c = <<"door", " ", "slam">> -> "door slamming"
          [] c = <<"applause">> -> "audience applause"
          [] c = <<"laugh">> -> "audience laughter"
          [] c = <<"drum", " ", "roll">> -> "drum roll"
          [] c = <<"suspense">> -> "suspenseful music"
          [] c = <<"fight">> -> "fight scene sound effects"
          [] c = <<"exit">> -> "door closing and footsteps"
          [] c = <<"mic", " ", "drop">> -> "mic drop sound effect"]

\* str.find(tok): index of the first occurrence, 0 when absent (Python: -1)
RECURSIVE FindFrom(_, _, _)
FindFrom(line, tok, k) ==
    IF k > Len(line) THEN 0
    ELSE IF line[k] = tok THEN k ELSE FindFrom(line, tok, k + 1)

Find(line, tok) == FindFrom(line, tok, 1)

\* line[start+1:end].lower().strip()
CueText(line, start, end) == Strip(LowerSeq(SubSeq(line, start + 1, end - 1)))

\* mutant of LineCues: the cue carries the 1-based line number
LineCues_OneBased(i, line) ==
    LET start == Find(line, "[")
        end == Find(line, "]")
    IN  IF start > 0 /\ end > 0 /\ start < end /\ CueText(line, start, end) \in DOMAIN sfx_mapping
        THEN << [line |-> i + 1,
                 cue |-> CueText(line, start, end),
                 prompt |-> sfx_mapping[CueText(line, start, end)]] >>
        ELSE <<>>

\* the cues one line adds to sfx_cues; i is the 0-based index of enumerate
LineCues(i, line) ==
    LET start == Find(line, "[")
        end == Find(line, "]")
    IN  IF start > 0 /\ end > 0 /\ start < end /\ CueText(line, start, end) \in DOMAIN sfx_mapping
        THEN << [line |-> i,
                 cue |-> CueText(line, start, end),
                 prompt |-> sfx_mapping[CueText(line, start, end)]] >>
        ELSE <<>>

RECURSIVE ScanLines(_, _)
ScanLines(lines, k) ==
    IF k > Len(lines) THEN <<>>
    ELSE LineCues(k - 1, lines[k]) \o ScanLines(lines, k + 1)

\* mutant of process_script_for_sfx: the first (title) line is dropped before
\* the lines are indexed
process_script_for_sfx_TitleDropped(script) == ScanLines(Tail(SplitLines(script)), 1)

process_script_for_sfx(script) == ScanLines(SplitLines(script), 1)

(***************************************************************************)
(* Harness of the text functions: build a transcript line by line, then    *)
(* call extract_dialogue and process_script_for_sfx on it.                 *)
(***************************************************************************)
MaxLines == 3

\* the speaker labels handed to extract_dialogue
Joe == <<"Joe">>
Alex == <<"Alex">>

LinePrefixes == { <<>>, <<"Joe", ":">>, <<" ", "JOE", " ", ":">>, <<"Alex", ":">> }

LineBodies ==
    { <<>>,
      <<" ", "hi", " ">>,
      <<" ", "hi", " ", "[", "Mic", " ", "Drop", "]">>,
      <<"[", " ", "laugh", " ", "]">>,
      <<"[", "boo", "]", " ", "[", "exit", "]">>,
      <<"]", " ", "[", "exit", "]">>,
      <<"Boo", ":", " ", "hi">> }

LineSet == { p \o b : p \in LinePrefixes, b \in LineBodies }

\* "EPISODE TITLE: Test\nJoe: Hi there\nAlex: Hello Joe\nJoe: [mic drop] Great talk"
EpisodeExample ==
    <<"EPISODE", " ", "TITLE", ":", " ", "Test", NL,
      "Joe", ":", " ", "Hi", " ", "there", NL,
      "Alex", ":", " ", "Hello", " ", "Joe", NL,
      "Joe", ":", " ", "[", "mic", " ", "drop", "]", " ", "Great", " ", "talk">>

\* "A: hello\n[drum roll]\nB: wow [unknown] neat"
ScanExample ==
    <<"A", ":", " ", "hello", NL,
      "[", "drum", " ", "roll", "]", NL,
      "B", ":", " ", "wow", " ", "[", "unknown", "]", " ", "neat">>

ExampleScripts == { EpisodeExample, ScanExample }

TextInit ==
    /\ transcript \in LineSet \cup ExampleScripts
    /\ parsed = "no"
    /\ turns = <<>>
    /\ cues = <<>>

AppendLine ==
    /\ parsed = "no"
    /\ Len(SplitLines(transcript)) < MaxLines
    /\ \E l \in LineSet : transcript' = transcript \o <<NL>> \o l
    /\ UNCHANGED <<parsed, turns, cues>>
    /\ UNCHANGED <<pipeVars, raceVars>>

Parse ==
    /\ parsed = "no"
    /\ parsed' = "yes"
    /\ turns' = extract_dialogue(transcript, Joe, Alex)
    /\ cues' = process_script_for_sfx(transcript)
    /\ UNCHANGED transcript
    /\ UNCHANGED <<pipeVars, raceVars>>

ParseNext == AppendLine \/ Parse

(***************************************************************************)
(* VoiceSynthesizer.text_to_speech                                         *)
(***************************************************************************)
\* VoiceSynthesizer.__init__: the configured voice ids
default_voice_1 == "NQS8M290ViUV7Mdca3qT"
default_voice_2 == "E1eTKENSf2k6nMCQpG8n"
joe_rogan_voice_id == "legacy-joe-voice-id"
alex_cooper_voice_id == "legacy-alex-voice-id"

\* a truthy voice id that is no str (a number read from a profile)
NotAString == "<not a str>"

\* clean_env_var on the voice ids of the model
clean_env_var(v) ==
    CASE v = "None" -> ""
      [] v = "'abc' # short" -> "abc"
      [] v = "# unset" -> ""
      [] OTHER -> v

\* len() of a cleaned voice id
StrLen(v) ==
    CASE v = "" -> 0
      [] v = "abc" -> 3
      [] v = "custom-voice-1" -> 14
      [] v = "custom-voice-2" -> 14
      [] v = "legacy-joe-voice-id" -> 19
      [] v = "legacy-alex-voice-id" -> 20
      [] v = default_voice_1 -> 20
      [] v = default_voice_2 -> 20

\* the values text_to_speech returns, as token sequences
SegmentPath == <<"segment_path">>
Skipped == <<"Skipped:", "Empty", "text", "provided.">>
ErrInvalidVoice == <<"Error:", "Invalid", "voice_id", "provided", "for", "TTS">>
ErrNotSaved == <<"Error:", "Audio", "file", "empty", "or", "not", "saved", "correctly">>
ErrEmptyContent == <<"Error:", "ElevenLabs", "API", "returned", "status", "200", "but",
                     "with", "empty", "audio", "content">>
ErrStatus == <<"Error:", "ElevenLabs", "API", "returned", "status", "code">>
ErrTimeout == <<"Error:", "Timeout", "during", "ElevenLabs", "API", "request">>
ErrNetwork == <<"Error:", "Network", "error", "during", "ElevenLabs", "API", "request">>
ErrDuringCall == <<"Error", "during", "text_to_speech", "call">>

\* mutant of TTSPrecheck: only an empty voice id is rejected, a short one is sent
TTSPrecheck_NoLengthCheck(text, voice_id) ==
    IF Strip(text) = <<>> THEN "skip"
    ELSE IF voice_id = NotAString THEN "raise"
    ELSE IF clean_env_var(voice_id) = "" THEN "invalid"
    ELSE "send"

\* text_to_speech up to the request: "skip", "invalid", "raise" (clean_env_var
\* on a value that has no split) or "send"
TTSPrecheck(text, voice_id) ==
    IF Strip(text) = <<>> THEN "skip"
    ELSE IF voice_id = NotAString THEN "raise"
    ELSE IF clean_env_var(voice_id) = "" \/ StrLen(clean_env_var(voice_id)) < 5 THEN "invalid"
    ELSE "send"

\* what requests.post and the handling of its response can come to
TTSOutcomes ==
    { "200_audio",         \* 200, a body that decodes as mp3, written
      "200_garbage",       \* 200, a non-empty body that does not decode, written
      "200_write_error",   \* 200, non-empty body, the write raises after part is on disk
      "200_write_nothing", \* 200, non-empty body, the write raises with nothing on disk
      "200_open_error",    \* 200, non-empty body, open() raises
      "200_not_saved",     \* 200, non-empty body, the file is empty or gone on re-check
      "200_empty",         \* 200, empty body
      "200_empty_bad_detail", \* 200, empty body, JSON whose "detail" has no get()
      "non200",            \* another status
      "non200_bad_detail", \* another status whose JSON "detail" has no get()
      "timeout",
      "network_error" }

\* mutant of TTSResponse: the length of the body is not looked at, an empty
\* body is written and the path returned
TTSResponse_EmptyWritten(outcome) ==
    CASE outcome = "200_audio" -> [result |-> SegmentPath, file |-> "audio"]
      [] outcome = "200_garbage" -> [result |-> SegmentPath, file |-> "garbage"]
      [] outcome = "200_write_error" -> [result |-> ErrDuringCall, file |-> "truncated"]
      [] outcome = "200_write_nothing" -> [result |-> ErrDuringCall, file |-> "empty"]
      [] outcome = "200_open_error" -> [result |-> ErrDuringCall, file |-> "none"]
      [] outcome = "200_not_saved" -> [result |-> ErrNotSaved, file |-> "none"]
      [] outcome = "200_empty" -> [result |-> SegmentPath, file |-> "empty"]
      [] outcome = "200_empty_bad_detail" -> [result |-> SegmentPath, file |-> "empty"]
      [] outcome = "non200" -> [result |-> ErrStatus, file |-> "none"]
      [] outcome = "non200_bad_detail" -> [result |-> ErrDuringCall, file |-> "none"]
      [] outcome = "timeout" -> [result |-> ErrTimeout, file |-> "none"]
      [] outcome = "network_error" -> [result |-> ErrNetwork, file |-> "none"]

\* the value text_to_speech returns and the file it leaves at output_path
\* ("none": no file)
TTSResponse(outcome) ==
    CASE outcome = "200_audio" -> [result |-> SegmentPath, file |-> "audio"]
      [] outcome = "200_garbage" -> [result |-> SegmentPath, file |-> "garbage"]
      [] outcome = "200_write_error" -> [result |-> ErrDuringCall, file |-> "truncated"]
      [] outcome = "200_write_nothing" -> [result |-> ErrDuringCall, file |-> "empty"]
      [] outcome = "200_open_error" -> [result |-> ErrDuringCall, file |-> "none"]
      [] outcome = "200_not_saved" -> [result |-> ErrNotSaved, file |-> "none"]
      [] outcome = "200_empty" -> [result |-> ErrEmptyContent, file |-> "none"]
      [] outcome = "200_empty_bad_detail" -> [result |-> ErrDuringCall, file |-> "none"]
      [] outcome = "non200" -> [result |-> ErrStatus, file |-> "none"]
      [] outcome = "non200_bad_detail" -> [result |-> ErrDuringCall, file |-> "none"]
      [] outcome = "timeout" -> [result |-> ErrTimeout, file |-> "none"]
      [] outcome = "network_error" -> [result |-> ErrNetwork, file |-> "none"]

(***************************************************************************)
(* VoiceSynthesizer.concatenate_audio_pydub                                *)
(***************************************************************************)
Silence == [kind |-> "silence", seg |-> 0]

\* AudioSegment.silent(duration=250)
SilenceMs == 250

\* len() of the audio loaded from the segment file of turn n, in ms (what the
\* voice service returned for the turn)
SegmentMs(n) == 1000 + 300 * n

\* len() of one piece of the track
PieceMs(piece) == IF piece.kind = "silence" THEN SilenceMs ELSE SegmentMs(piece.seg)

\* len(combined): "combined += segment", "combined += silence" add up
RECURSIVE TrackMs(_)
TrackMs(track) ==
    IF track = <<>> THEN 0 ELSE PieceMs(Head(track)) + TrackMs(Tail(track))

\* mutant of ConcatFrom: the silence is added after every segment, the last
\* one too
RECURSIVE ConcatFrom_TrailingSilence(_, _, _)
ConcatFrom_TrailingSilence(files, k, decodes) ==
    IF k > Len(files) THEN <<>>
    ELSE IF files[k] \in decodes
         THEN << [kind |-> "segment", seg |-> files[k]], Silence >>
                 \o ConcatFrom_TrailingSilence(files, k + 1, decodes)
         ELSE ConcatFrom_TrailingSilence(files, k + 1, decodes)

\* mutant of ConcatFrom: the loop ends at the first segment that does not load
RECURSIVE ConcatFrom_StopAtBadSegment(_, _, _)
ConcatFrom_StopAtBadSegment(files, k, decodes) ==
    IF k > Len(files) THEN <<>>
    ELSE IF files[k] \in decodes
         THEN << [kind |-> "segment", seg |-> files[k]] >>
                 \o (IF k - 1 < Len(files) - 1 THEN <<Silence>> ELSE <<>>)
                 \o ConcatFrom_StopAtBadSegment(files, k + 1, decodes)
         ELSE <<>>

\* mutant of ConcatFrom: later segments are put before earlier ones
RECURSIVE ConcatFrom_Reversed(_, _, _)
ConcatFrom_Reversed(files, k, decodes) ==
    IF k > Len(files) THEN <<>>
    ELSE ConcatFrom_Reversed(files, k + 1, decodes)
            \o (IF files[k] \in decodes
                THEN << [kind |-> "segment", seg |-> files[k]] >>
                        \o (IF k > 1 THEN <<Silence>> ELSE <<>>)
                ELSE <<>>)

\* "for i, file in enumerate(segment_files)": k is i + 1, decodes the set of
\* segments AudioSegment.from_mp3 loads
RECURSIVE ConcatFrom(_, _, _)
ConcatFrom(files, k, decodes) ==
    IF k > Len(files) THEN <<>>
    ELSE IF files[k] \in decodes
         THEN << [kind |-> "segment", seg |-> files[k]] >>
                 \o (IF k - 1 < Len(files) - 1 THEN <<Silence>> ELSE <<>>)
                 \o ConcatFrom(files, k + 1, decodes)
         ELSE ConcatFrom(files, k + 1, decodes)

ErrConcatEmpty == "Error: Concatenation resulted in an empty audio file"
ErrConcatDuring == "Error during audio concatenation with pydub"
ErrNoSegments == "Error: No audio segments provided for concatenation."
OutputPath == "output/podcast.mp3"

ExportOutcomes == { "ok", "error", "error_truncated" }

\* the file at output_path after AudioSegment.export
Exported(before, ex) ==
    CASE ex = "ok" -> "audio"
      [] ex = "error" -> before
      [] ex = "error_truncated" -> "empty"

\* value returned by concatenate_audio_pydub
ConcatResult(files, track, ex) ==
    IF files = <<>> THEN ErrNoSegments
    ELSE IF track = <<>> THEN ErrConcatEmpty
    ELSE IF ex = "ok" THEN OutputPath ELSE ErrConcatDuring

(***************************************************************************)
(* VoiceSynthesizer.generate_audio / _generate_main_audio and              *)
(* SoundEffects.generate_sfx / insert_sfx_into_audio, step by step         *)
(***************************************************************************)
MaxRuns == 2

\* "Joe: hi\nAlex: hi"
PlainScript == <<"Joe", ":", " ", "hi", NL, "Alex", ":", " ", "hi">>

\* "Joe: [laugh] hi\nAlex: hi [Mic Drop]"
TwoCueScript ==
    <<"Joe", ":", " ", "[", "laugh", "]", " ", "hi", NL,
      "Alex", ":", " ", "hi", " ", "[", "Mic", " ", "Drop", "]">>

\* "Joe: [laugh] hi\nAlex: [laugh] hi": the same effect twice
SameCueScript ==
    <<"Joe", ":", " ", "[", "laugh", "]", " ", "hi", NL,
      "Alex", ":", " ", "[", "laugh", "]", " ", "hi">>

\* "Joe Rogan: hi\nAlex Cooper: hi"
LegacyScript ==
    <<"Joe", " ", "Rogan", ":", " ", "hi", NL, "Alex", " ", "Cooper", ":", " ", "hi">>

Scripts ==
    { EpisodeExample, ScanExample, PlainScript, TwoCueScript, SameCueScript, LegacyScript }

\* the host names a caller passes: plain ones, and the two the legacy voice
\* ids are kept for, in the caller's spelling
HostPairs == { <<Joe, Alex>>, << <<"JOE", " ", "Rogan">>, <<"Alex", " ", "Cooper">> >> }

\* extract_dialogue on each script drawn, with each pair of host names drawn
\* (computed once)
ScriptTurns ==
    [sc \in Scripts |-> [h \in HostPairs |-> extract_dialogue(sc, h[1], h[2])]]

\* process_script_for_sfx on each script drawn (computed once per script)
ScriptCues == [sc \in Scripts |-> process_script_for_sfx(sc)]

\* the (voice1_id, voice2_id) arguments drawn
VoicePairs ==
    { <<"None", "None">>,
      <<"custom-voice-1", "custom-voice-2">>,
      <<"custom-voice-1", "None">>,
      <<"custom-voice-1", "'abc' # short">>,
      <<"custom-voice-1", "# unset">>,
      <<"custom-voice-1", NotAString>> }

Jobs ==
    { [script |-> sc, host1_name |-> h[1], host2_name |-> h[2],
       voice1_id |-> vp[1], voice2_id |-> vp[2]] :
          sc \in Scripts, h \in HostPairs, vp \in VoicePairs }

Prompts == { sfx_mapping[k] : k \in KnownCues }

\* what generate_audio returns when _generate_main_audio found no dialogue
NoDialogueValue == "None"

\* mutant of FinalVoice: the legacy id of a legacy host wins over the id the
\* caller passed
FinalVoice_LegacyFirst(voice_id, host_name, legacy_name, legacy_id, default_id) ==
    IF LowerSeq(host_name) = legacy_name THEN legacy_id
    ELSE IF voice_id # "None" /\ voice_id # "" THEN voice_id ELSE default_id

\* "voice1_id if voice1_id else (legacy id if host.lower() == legacy else default)"
FinalVoice(voice_id, host_name, legacy_name, legacy_id, default_id) ==
    IF voice_id # "None" /\ voice_id # "" THEN voice_id
    ELSE IF LowerSeq(host_name) = legacy_name THEN legacy_id ELSE default_id

Range(f) == { f[k] : k \in DOMAIN f }

\* mutant of RemoveSegments: the segment files are left in place
RemoveSegments_Kept(files, segs) == files

\* os.remove of the segment files numbered in segs
RemoveSegments(files, segs) == { f \in files : f.seg \notin segs }

\* os.path.exists(path) and os.path.getsize(path) > 0
ExistsNonEmpty(files, n) == \E f \in files : f.seg = n /\ f.content # "empty"

PipeInit ==
    /\ pc = "idle"
    /\ runs = 0
    /\ job = [script |-> <<>>, host1_name |-> Joe, host2_name |-> Alex,
              voice1_id |-> "None", voice2_id |-> "None"]
    /\ final_voice1_id = "None"
    /\ final_voice2_id = "None"
    /\ dialogue_turns = <<>>
    /\ turn_i = 1
    /\ segment_files = <<>>
    /\ errors = <<>>
    /\ temp_dir = FALSE
    /\ scratch = {}
    /\ calls = <<>>
    /\ combined = <<>>
    /\ main_audio_path = "pending"
    /\ sfx_cues = <<>>
    /\ cue_i = 1
    /\ overlays = <<>>
    /\ sfx_calls = <<>>
    /\ ret = "pending"
    /\ output_writes = 0
    /\ output_file = "absent"
    /\ cache = [q \in Prompts |-> "absent"]

\* the text harness is not used while generate_audio runs
TextIdle ==
    /\ transcript = <<>>
    /\ parsed = "no"
    /\ turns = <<>>
    /\ cues = <<>>

\* the chunks response.content is written in
WriteChunks == 2

\* the two invocations that run at the same time
Invokers == {"A", "B"}

NoChunks == [c \in 1..WriteChunks |-> FALSE]

\* no second invocation is running
RaceIdle ==
    /\ invocation = [p \in Invokers |->
                        [sfx_cues |-> <<>>, cue_i |-> 1, at |-> "end", offset |-> 0,
                         loaded |-> <<>>]]
    /\ cache_files = [q \in Prompts |-> [exists |-> FALSE, chunks |-> NoChunks]]

Init == PipeInit /\ TextIdle /\ RaceIdle

\* mutant of Start: the scratch directory is made before the dialogue is
\* looked at
Start_DirBeforeCheck ==
    /\ pc \in {"idle", "done"}
    /\ runs < MaxRuns
    /\ \E j \in Jobs :
          LET dt == ScriptTurns[j.script][<<j.host1_name, j.host2_name>>]
          IN  /\ job' = j
              /\ final_voice1_id' = FinalVoice(j.voice1_id, j.host1_name,
                                              <<"joe", " ", "rogan">>,
                                              joe_rogan_voice_id, default_voice_1)
              /\ final_voice2_id' = FinalVoice(j.voice2_id, j.host2_name,
                                              <<"alex", " ", "cooper">>,
                                              alex_cooper_voice_id, default_voice_2)
              /\ dialogue_turns' = dt
              /\ pc' = IF dt = <<>> THEN "done" ELSE "loop"
              /\ main_audio_path' = IF dt = <<>> THEN "None" ELSE "pending"
              /\ ret' = IF dt = <<>> THEN NoDialogueValue ELSE "pending"
              /\ temp_dir' = TRUE
    /\ runs' = runs + 1
    /\ turn_i' = 1
    /\ segment_files' = <<>>
    /\ errors' = <<>>
    /\ scratch' = {}
    /\ calls' = <<>>
    /\ combined' = <<>>
    /\ sfx_cues' = <<>>
    /\ cue_i' = 1
    /\ overlays' = <<>>
    /\ sfx_calls' = <<>>
    /\ output_writes' = 0
    /\ UNCHANGED <<output_file, cache>>
    /\ UNCHANGED <<textVars, raceVars>>

\* generate_audio is called: _generate_main_audio picks the voices, extracts
\* the dialogue, returns None when there is none, else makes the scratch
\* directory
Start ==
    /\ pc \in {"idle", "done"}
    /\ runs < MaxRuns
    /\ \E j \in Jobs :
          LET dt == ScriptTurns[j.script][<<j.host1_name, j.host2_name>>]
          IN  /\ job' = j
              /\ final_voice1_id' = FinalVoice(j.voice1_id, j.host1_name,
                                              <<"joe", " ", "rogan">>,
                                              joe_rogan_voice_id, default_voice_1)
              /\ final_voice2_id' = FinalVoice(j.voice2_id, j.host2_name,
                                              <<"alex", " ", "cooper">>,
                                              alex_cooper_voice_id, default_voice_2)
              /\ dialogue_turns' = dt
              /\ pc' = IF dt = <<>> THEN "done" ELSE "loop"
              /\ main_audio_path' = IF dt = <<>> THEN "None" ELSE "pending"
              /\ ret' = IF dt = <<>> THEN NoDialogueValue ELSE "pending"
              /\ temp_dir' = (dt # <<>>)
    /\ runs' = runs + 1
    /\ turn_i' = 1
    /\ segment_files' = <<>>
    /\ errors' = <<>>
    /\ scratch' = {}
    /\ calls' = <<>>
    /\ combined' = <<>>
    /\ sfx_cues' = <<>>
    /\ cue_i' = 1
    /\ overlays' = <<>>
    /\ sfx_calls' = <<>>
    /\ output_writes' = 0
    /\ UNCHANGED <<output_file, cache>>
    /\ UNCHANGED <<textVars, raceVars>>

\* the voice and the speaker name of the turn the loop is at
VoiceToUse ==
    IF dialogue_turns[turn_i].speaker = "host1" THEN final_voice1_id ELSE final_voice2_id

SpeakerName ==
    IF dialogue_turns[turn_i].speaker = "host1" THEN job.host1_name ELSE job.host2_name

\* "Stop on first error": the failed turn's file and the segments made so far
\* are removed, the directory is removed if empty, None is returned (and
\* generate_audio returns None)
Abort(result, files) ==
    /\ errors' = Append(errors, [turn |-> turn_i, speaker_name |-> SpeakerName,
                                 voice |-> VoiceToUse, result |-> result])
    /\ scratch' = RemoveSegments(files, {turn_i} \cup Range(segment_files))
    /\ temp_dir' = (scratch' # {})
    /\ main_audio_path' = "None"
    /\ ret' = "None"
    /\ pc' = "done"
    /\ UNCHANGED <<turn_i, segment_files>>

\* what _generate_main_audio does with the value text_to_speech returned;
\* files is the scratch directory as text_to_speech left it
AfterTTS(result, files) ==
    IF Head(result) \in {"Error:", "Skipped:"}
    THEN Abort(result, files)
    ELSE IF ExistsNonEmpty(files, turn_i)
    THEN /\ segment_files' = Append(segment_files, turn_i)
         /\ scratch' = files
         /\ turn_i' = turn_i + 1
         /\ pc' = "loop"
         /\ UNCHANGED <<errors, temp_dir, main_audio_path, ret>>
    ELSE Abort(<<"TTS", "succeeded", "but", "output", "file", "is", "invalid">>, files)

\* "except Exception" of _generate_main_audio: the listed segments are
\* removed, the directory is removed if empty, None is returned
Unexpected ==
    /\ scratch' = RemoveSegments(scratch, Range(segment_files))
    /\ temp_dir' = (scratch' # {})
    /\ main_audio_path' = "None"
    /\ ret' = "None"
    /\ pc' = "done"
    /\ UNCHANGED <<turn_i, segment_files, errors>>

\* one loop iteration up to the request: an empty turn is skipped, a bad voice
\* id fails without a request, else the request is sent
CallTTS ==
    /\ pc = "loop"
    /\ turn_i <= Len(dialogue_turns)
    /\ LET text == dialogue_turns[turn_i].text
           pre == TTSPrecheck(text, VoiceToUse)
           call == [turn |-> turn_i, voice |-> VoiceToUse, sent |-> FALSE,
                    response |-> "none", result |-> <<"pending">>]
       IN  IF Strip(text) = <<>>
           THEN /\ turn_i' = turn_i + 1
                /\ UNCHANGED <<pc, calls, segment_files, errors, temp_dir, scratch,
                               main_audio_path, ret>>
           ELSE CASE pre = "send" ->
                       /\ calls' = Append(calls, [call EXCEPT !.sent = TRUE])
                       /\ pc' = "tts_wait"
                       /\ UNCHANGED <<turn_i, segment_files, errors, temp_dir, scratch,
                                      main_audio_path, ret>>
                  [] pre = "raise" ->
                       /\ calls' = Append(calls, [call EXCEPT !.result = <<"raised">>])
                       /\ Unexpected
                  [] pre = "invalid" ->
                       /\ calls' = Append(calls, [call EXCEPT !.result = ErrInvalidVoice])
                       /\ AfterTTS(ErrInvalidVoice, scratch)
                  [] pre = "skip" ->
                       /\ calls' = Append(calls, [call EXCEPT !.result = Skipped])
                       /\ AfterTTS(Skipped, scratch)
    /\ UNCHANGED <<runs, job, final_voice1_id, final_voice2_id, dialogue_turns, combined,
                   sfx_cues, cue_i, overlays, sfx_calls, output_writes, output_file, cache>>
    /\ UNCHANGED <<textVars, raceVars>>

\* requests.post returns or raises: text_to_speech ends, the loop handles its
\* result
TTSReturn ==
    /\ pc = "tts_wait"
    /\ \E outcome \in TTSOutcomes :
          LET r == TTSResponse(outcome)
              files == IF r.file = "none" THEN scratch
                       ELSE scratch \cup {[seg |-> turn_i, content |-> r.file]}
          IN  /\ calls' = [calls EXCEPT ![Len(calls)].result = r.result,
                                        ![Len(calls)].response = outcome]
              /\ AfterTTS(r.result, files)
    /\ UNCHANGED <<runs, job, final_voice1_id, final_voice2_id, dialogue_turns, combined,
                   sfx_cues, cue_i, overlays, sfx_calls, output_writes, output_file, cache>>
    /\ UNCHANGED <<textVars, raceVars>>

\* the segment files AudioSegment.from_mp3 can load: decoded audio loads,
\* undecodable bytes do not, a truncated file may or may not
CanDecode(files, decodes) ==
    \A n \in Range(segment_files) :
        /\ n \in decodes => ExistsNonEmpty(files, n)
        /\ [seg |-> n, content |-> "audio"] \in files => n \in decodes
        /\ [seg |-> n, content |-> "garbage"] \in files => n \notin decodes

\* the loop is over: the segments are concatenated and exported, the scratch
\* files and directory are removed, _generate_main_audio returns; then
\* generate_audio scans the script for cues and either returns or, with cues,
\* enters insert_sfx_into_audio, which loads the main audio
Concatenate ==
    /\ pc = "loop"
    /\ turn_i > Len(dialogue_turns)
    /\ IF segment_files = <<>>
       THEN /\ temp_dir' = (scratch # {})
            /\ main_audio_path' = "None"
            /\ ret' = "None"
            /\ pc' = "done"
            /\ UNCHANGED <<combined, output_file, output_writes, scratch, sfx_cues>>
       ELSE \E decodes \in SUBSET Range(segment_files), ex \in ExportOutcomes :
               /\ CanDecode(scratch, decodes)
               /\ LET track == ConcatFrom(segment_files, 1, decodes)
                      result == ConcatResult(segment_files, track, ex)
                      found == ScriptCues[job.script]
                  IN  /\ combined' = track
                      /\ output_file' = IF track = <<>> THEN output_file
                                        ELSE Exported(output_file, ex)
                      /\ output_writes' = IF track # <<>> /\ ex # "error"
                                          THEN output_writes + 1 ELSE output_writes
                      /\ scratch' = RemoveSegments(scratch, Range(segment_files))
                      /\ temp_dir' = (scratch' # {})
                      /\ main_audio_path' = result
                      /\ sfx_cues' = found
                      /\ pc' = IF found # <<>> /\ result = OutputPath THEN "sfx" ELSE "done"
                      /\ ret' = IF found # <<>> /\ result = OutputPath THEN "pending"
                                ELSE result
    /\ UNCHANGED <<runs, job, final_voice1_id, final_voice2_id, dialogue_turns, turn_i,
                   segment_files, errors, calls, cue_i, overlays, sfx_calls, cache>>
    /\ UNCHANGED <<textVars, raceVars>>

\* what requests.post of generate_sfx can come to
SfxOutcomes ==
    { "ok_audio",        \* ok status, a body that loads as audio, written
      "ok_empty",        \* ok status, empty body, written
      "ok_write_error",  \* ok status, the write raises after the file is created
      "not_ok",          \* another status
      "exception" }      \* requests.post raises

\* the cache file after the response is handled
CacheAfter(before, outcome) ==
    CASE outcome = "ok_audio" -> "audio"
      [] outcome = "ok_empty" -> "empty"
      [] outcome = "ok_write_error" -> "garbage"
      [] OTHER -> before

\* value generate_sfx returns
SfxResult(outcome) == IF outcome \in {"ok_audio", "ok_empty"} THEN "cache_path" ELSE "None"

\* "Assuming ~2 seconds per line"
MsPerLine == 2000

\* mutant of position_ms: the line is counted from 1
position_ms_OneBased(cue) == (cue.line + 1) * MsPerLine

\* "position_ms = cue['line'] * 2000"
position_ms(cue) == cue.line * MsPerLine

\* mutant of AfterSFX: a cue whose first request failed is requested once more
AfterSFX_RetryOnce(sfx_path, content) ==
    IF sfx_path = "None"
    THEN /\ cue_i' = IF Len(sfx_calls) <= cue_i THEN cue_i ELSE cue_i + 1
         /\ pc' = "sfx"
         /\ UNCHANGED <<overlays, ret>>
    ELSE IF content = "audio"
    THEN /\ overlays' = Append(overlays, [prompt |-> sfx_cues[cue_i].prompt,
                                          line |-> sfx_cues[cue_i].line,
                                          position_ms |-> position_ms(sfx_cues[cue_i])])
         /\ cue_i' = cue_i + 1
         /\ pc' = "sfx"
         /\ UNCHANGED ret
    ELSE /\ ret' = main_audio_path
         /\ pc' = "done"
         /\ UNCHANGED <<overlays, cue_i>>

\* insert_sfx_into_audio with the value generate_sfx returned: a path is
\* loaded and overlaid at line * 2000 ms (a file that does not load ends
\* insert_sfx_into_audio with None, and generate_audio returns the main
\* audio); None skips the cue
AfterSFX(sfx_path, content) ==
    IF sfx_path = "None"
    THEN /\ cue_i' = cue_i + 1
         /\ pc' = "sfx"
         /\ UNCHANGED <<overlays, ret>>
    ELSE IF content = "audio"
    THEN /\ overlays' = Append(overlays, [prompt |-> sfx_cues[cue_i].prompt,
                                          line |-> sfx_cues[cue_i].line,
                                          position_ms |-> position_ms(sfx_cues[cue_i])])
         /\ cue_i' = cue_i + 1
         /\ pc' = "sfx"
         /\ UNCHANGED ret
    ELSE /\ ret' = main_audio_path
         /\ pc' = "done"
         /\ UNCHANGED <<overlays, cue_i>>

\* mutant of CallSFX: the cache is not looked at, every call sends a request
CallSFX_NoCacheCheck ==
    /\ pc = "sfx"
    /\ cue_i <= Len(sfx_cues)
    /\ sfx_calls' = Append(sfx_calls, [prompt |-> sfx_cues[cue_i].prompt, sent |-> TRUE,
                                       result |-> "pending"])
    /\ pc' = "sfx_wait"
    /\ UNCHANGED <<overlays, cue_i, ret>>
    /\ UNCHANGED <<runs, job, final_voice1_id, final_voice2_id, dialogue_turns, turn_i,
                   segment_files, errors, temp_dir, scratch, calls, combined,
                   main_audio_path, sfx_cues, output_writes, output_file, cache>>
    /\ UNCHANGED <<textVars, raceVars>>

\* generate_sfx up to the request: a cache hit returns the cached path
CallSFX ==
    /\ pc = "sfx"
    /\ cue_i <= Len(sfx_cues)
    /\ LET prompt == sfx_cues[cue_i].prompt
       IN  IF cache[prompt] # "absent"
           THEN /\ sfx_calls' = Append(sfx_calls, [prompt |-> prompt, sent |-> FALSE,
                                                   result |-> "cache_path"])
                /\ AfterSFX("cache_path", cache[prompt])
           ELSE /\ sfx_calls' = Append(sfx_calls, [prompt |-> prompt, sent |-> TRUE,
                                                   result |-> "pending"])
                /\ pc' = "sfx_wait"
                /\ UNCHANGED <<overlays, cue_i, ret>>
    /\ UNCHANGED <<runs, job, final_voice1_id, final_voice2_id, dialogue_turns, turn_i,
                   segment_files, errors, temp_dir, scratch, calls, combined,
                   main_audio_path, sfx_cues, output_writes, output_file, cache>>
    /\ UNCHANGED <<textVars, raceVars>>

\* requests.post of generate_sfx returns or raises
SFXReturn ==
    /\ pc = "sfx_wait"
    /\ \E outcome \in SfxOutcomes :
          LET prompt == sfx_cues[cue_i].prompt
              content == CacheAfter(cache[prompt], outcome)
          IN  /\ cache' = [cache EXCEPT ![prompt] = content]
              /\ sfx_calls' = [sfx_calls EXCEPT ![Len(sfx_calls)].result = SfxResult(outcome)]
              /\ AfterSFX(SfxResult(outcome), content)
    /\ UNCHANGED <<runs, job, final_voice1_id, final_voice2_id, dialogue_turns, turn_i,
                   segment_files, errors, temp_dir, scratch, calls, combined,
                   main_audio_path, sfx_cues, output_writes, output_file>>
    /\ UNCHANGED <<textVars, raceVars>>

\* the cues are done: main_audio.export(output_path); when it raises,
\* insert_sfx_into_audio returns None and generate_audio the main audio
ExportFinal ==
    /\ pc = "sfx"
    /\ cue_i > Len(sfx_cues)
    /\ \E ex \in ExportOutcomes :
          /\ output_file' = Exported(output_file, ex)
          /\ output_writes' = IF ex # "error" THEN output_writes + 1 ELSE output_writes
          /\ ret' = IF ex = "ok" THEN OutputPath ELSE main_audio_path
    /\ pc' = "done"
    /\ UNCHANGED <<runs, job, final_voice1_id, final_voice2_id, dialogue_turns, turn_i,
                   segment_files, errors, temp_dir, scratch, calls, combined,
                   main_audio_path, sfx_cues, cue_i, overlays, sfx_calls, cache>>
    /\ UNCHANGED <<textVars, raceVars>>

Next == Start \/ CallTTS \/ TTSReturn \/ Concatenate \/ CallSFX \/ SFXReturn \/ ExportFinal

Spec == Init /\ [][Next]_vars

\* generate_audio under the scheduling the code guarantees: the interpreter
\* runs every local step, and requests.post of text_to_speech returns or raises
\* within its timeout (timeout=90); requests.post of generate_sfx is given no
\* timeout, so nothing makes SFXReturn happen; when generate_audio is called
\* again is up to the caller
Fairness ==
    /\ WF_vars(CallTTS)
    /\ WF_vars(TTSReturn)
    /\ WF_vars(Concatenate)
    /\ WF_vars(CallSFX)
    /\ WF_vars(ExportFinal)

LiveSpec == Init /\ [][Next]_vars /\ Fairness

\* the text functions on their own: no generate_audio invocation is running
ParseStart == TextInit /\ PipeInit /\ RaceIdle

ParseSpec == ParseStart /\ [][ParseNext]_vars

(***************************************************************************)
(* Two generate_audio invocations in insert_sfx_into_audio at the same     *)
(* time, sharing cache/sfx (RaceSpec)                                      *)
(***************************************************************************)
\* both invocations have their main audio and enter insert_sfx_into_audio,
\* each with the cues of its script; the cache directory is empty
RaceInit ==
    /\ \E sa \in Scripts, sb \in Scripts :
          /\ ScriptCues[sa] # <<>>
          /\ ScriptCues[sb] # <<>>
          /\ invocation =
                [p \in Invokers |->
                    [sfx_cues |-> IF p = "A" THEN ScriptCues[sa] ELSE ScriptCues[sb],
                     cue_i |-> 1, at |-> "check", offset |-> 0, loaded |-> <<>>]]
    /\ cache_files = [q \in Prompts |-> [exists |-> FALSE, chunks |-> NoChunks]]

RaceStart == PipeInit /\ TextIdle /\ RaceInit

\* the prompt of the cue invocation p is at
PromptOf(p) == invocation[p].sfx_cues[invocation[p].cue_i].prompt

Complete(file) == file.exists /\ \A c \in 1..WriteChunks : file.chunks[c]

\* generate_sfx: "if os.path.exists(cache_path): return cache_path"
SfxExists(p) ==
    /\ invocation[p].at = "check"
    /\ invocation[p].cue_i <= Len(invocation[p].sfx_cues)
    /\ invocation' = [invocation EXCEPT ![p].at =
                         IF cache_files[PromptOf(p)].exists THEN "load" ELSE "post"]
    /\ UNCHANGED cache_files
    /\ UNCHANGED <<textVars, pipeVars>>

\* generate_sfx: requests.post returns; "if response.ok" goes on to the write,
\* anything else returns None and the cue is skipped
SfxPost(p) ==
    /\ invocation[p].at = "post"
    /\ \E ok \in BOOLEAN :
          invocation' = [invocation EXCEPT
                            ![p].at = IF ok THEN "open" ELSE "check",
                            ![p].cue_i = IF ok THEN @ ELSE @ + 1]
    /\ UNCHANGED cache_files
    /\ UNCHANGED <<textVars, pipeVars>>

\* generate_sfx: open(output_path, "wb") creates the file or truncates it
SfxOpen(p) ==
    /\ invocation[p].at = "open"
    /\ cache_files' = [cache_files EXCEPT ![PromptOf(p)] =
                          [exists |-> TRUE, chunks |-> NoChunks]]
    /\ invocation' = [invocation EXCEPT ![p].at = "write", ![p].offset = 0]
    /\ UNCHANGED <<textVars, pipeVars>>

\* generate_sfx: f.write(response.content) puts the next chunk at the
\* writer's own offset; after the last chunk the file is closed and
\* output_path is returned
SfxWrite(p) ==
    /\ invocation[p].at = "write"
    /\ invocation[p].offset < WriteChunks
    /\ cache_files' = [cache_files EXCEPT
                          ![PromptOf(p)].chunks[invocation[p].offset + 1] = TRUE]
    /\ invocation' = [invocation EXCEPT
                         ![p].offset = @ + 1,
                         ![p].at = IF invocation[p].offset + 1 = WriteChunks
                                   THEN "load" ELSE "write"]
    /\ UNCHANGED <<textVars, pipeVars>>

\* insert_sfx_into_audio: AudioSegment.from_file(sfx_path) reads the file as
\* it is now; a complete clip is overlaid, a file with no data raises (the
\* except returns None), a file with part of the data does either
SfxLoad(p) ==
    /\ invocation[p].at = "load"
    /\ LET file == cache_files[PromptOf(p)]
           seen == [prompt |-> PromptOf(p), complete |-> Complete(file)]
       IN  \E decoded \in BOOLEAN :
             /\ Complete(file) => decoded
             /\ file.chunks = NoChunks => ~decoded
             /\ invocation' = [invocation EXCEPT
                                  ![p].loaded = Append(@, seen),
                                  ![p].at = IF decoded THEN "check" ELSE "end",
                                  ![p].cue_i = IF decoded THEN @ + 1 ELSE @]
    /\ UNCHANGED cache_files
    /\ UNCHANGED <<textVars, pipeVars>>

\* insert_sfx_into_audio: after the last cue the mix is exported
SfxExport(p) ==
    /\ invocation[p].at = "check"
    /\ invocation[p].cue_i > Len(invocation[p].sfx_cues)
    /\ invocation' = [invocation EXCEPT ![p].at = "end"]
    /\ UNCHANGED cache_files
    /\ UNCHANGED <<textVars, pipeVars>>

RaceNext ==
    \E p \in Invokers :
        SfxExists(p) \/ SfxPost(p) \/ SfxOpen(p) \/ SfxWrite(p) \/ SfxLoad(p) \/ SfxExport(p)

RaceSpec == RaceStart /\ [][RaceNext]_vars

(***************************************************************************)
(* Properties of extract_dialogue and process_script_for_sfx (ParseSpec)   *)
(***************************************************************************)
Lines == SplitLines(transcript)

Blank(line) == \A j \in 1..Len(line) : IsSpace(line[j])

\* line reads  <spaces> name <spaces> ":" ...  with the colon at index c,
\* the name compared without regard to case
LabelledAt(line, name, c) ==
    /\ c \in 1..Len(line)
    /\ line[c] = ":"
    /\ \E a \in 1..c :
          /\ \A j \in 1..(a - 1) : IsSpace(line[j])
          /\ a + Len(name) <= c
          /\ \A j \in 1..Len(name) : Lower(line[a + j - 1]) = Lower(name[j])
          /\ \A j \in (a + Len(name))..(c - 1) : IsSpace(line[j])

Labelled(line, name) == \E c \in 1..Len(line) : LabelledAt(line, name, c)

SpeakerOf(line) ==
    IF Labelled(line, Joe) THEN "host1"
    ELSE IF Labelled(line, Alex) THEN "host2" ELSE "None"

\* the text a speaker line carries after its label
SaidOn(line) ==
    LET name == IF Labelled(line, Joe) THEN Joe ELSE Alex
        c == CHOOSE k \in 1..Len(line) : LabelledAt(line, name, k)
    IN  SubSeq(line, c + 1, Len(line))

\* every line is a speaker line with text, and the speakers alternate
Alternating(lines) ==
    /\ \A k \in 1..Len(lines) : SpeakerOf(lines[k]) # "None" /\ ~Blank(SaidOn(lines[k]))
    /\ \A k \in 1..(Len(lines) - 1) : SpeakerOf(lines[k]) # SpeakerOf(lines[k + 1])

\* C6: a transcript whose lines are all "<A>: text" / "<B>: text" with
\* non-empty text and strictly alternating speakers yields exactly one turn
\* per line, in line order, the turn's speaker being the line's speaker (so
\* alternating) and its text the line's trimmed text.
C6_OneTurnPerLine ==
    (parsed = "yes" /\ Alternating(Lines)) =>
        /\ Len(turns) = Len(Lines)
        /\ \A k \in 1..Len(turns) :
              /\ turns[k].speaker = SpeakerOf(Lines[k])
              /\ turns[k].text = Strip(SaidOn(Lines[k]))
        /\ \A k \in 1..(Len(turns) - 1) : turns[k].speaker # turns[k + 1].speaker

C6_Witness ==
    /\ parsed = "yes"
    /\ Alternating(Lines)
    /\ Len(Lines) = 3
    /\ Len(turns) = 3

\* the unlabelled non-blank lines that follow line k - 1 up to the next
\* speaker line, each trimmed and preceded by one space
RECURSIVE ContinuationText(_, _)
ContinuationText(lines, k) ==
    IF k > Len(lines) \/ SpeakerOf(lines[k]) # "None" THEN <<>>
    ELSE IF Blank(lines[k]) THEN ContinuationText(lines, k + 1)
    ELSE <<" ">> \o Strip(lines[k]) \o ContinuationText(lines, k + 1)

\* the text of the run opened by speaker line p
RunText(lines, p) == Strip(Strip(SaidOn(lines[p])) \o ContinuationText(lines, p + 1))

\* one turn per speaker line whose run has text, in line order
RECURSIVE RunsFrom(_, _)
RunsFrom(lines, k) ==
    IF k > Len(lines) THEN <<>>
    ELSE IF SpeakerOf(lines[k]) # "None" /\ RunText(lines, k) # <<>>
    THEN << [speaker |-> SpeakerOf(lines[k]), text |-> RunText(lines, k)] >>
             \o RunsFrom(lines, k + 1)
    ELSE RunsFrom(lines, k + 1)

\* C7 as stated: consecutive lines of one speaker merge into one turn, so no
\* two adjacent turns have the same speaker.
C7_NoAdjacentSameSpeaker ==
    parsed = "yes" =>
        \A k \in 1..(Len(turns) - 1) : turns[k].speaker # turns[k + 1].speaker

\* C7 amended: a speaker line followed by unlabelled lines merges with them
\* into exactly one turn, whose text is the trimmed single-space join of the
\* lines' trimmed texts; every speaker line opens a turn of its own, also when
\* the previous speaker line names the same speaker.
C7_MergesContinuationLines ==
    parsed = "yes" => turns = RunsFrom(Lines, 1)

C7_Witness ==
    /\ parsed = "yes"
    /\ Len(Lines) = 3
    /\ SpeakerOf(Lines[1]) = "host1"
    /\ SpeakerOf(Lines[2]) = "None" /\ ~Blank(Lines[2])
    /\ SpeakerOf(Lines[3]) = "host1"
    /\ Len(turns) = 2
    /\ turns[1].speaker = turns[2].speaker
    /\ turns[1].text = Strip(SaidOn(Lines[1])) \o <<" ">> \o Strip(Lines[2])

\* C8: a transcript with no speaker line (no line that starts with one of the
\* two labels followed by a colon) yields the empty sequence.
C8_NoSpeakerLineNoTurns ==
    (parsed = "yes" /\ \A k \in 1..Len(Lines) : SpeakerOf(Lines[k]) = "None") =>
        turns = <<>>

C8_Witness ==
    /\ parsed = "yes"
    /\ \A k \in 1..Len(Lines) : SpeakerOf(Lines[k]) = "None"
    /\ \E k \in 1..Len(Lines) : Find(Lines[k], ":") > 0
    /\ \E k \in 1..Len(Lines) : ~Blank(Lines[k]) /\ Find(Lines[k], ":") = 0
    /\ turns = <<>>

\* the bracket token the scanner inspects on a line: the text between the
\* line's first "[" and its first "]", when the "[" comes first
HasInspected(line) ==
    \E s \in 1..Len(line), e \in 1..Len(line) :
        /\ line[s] = "[" /\ \A j \in 1..(s - 1) : line[j] # "["
        /\ line[e] = "]" /\ \A j \in 1..(e - 1) : line[j] # "]"
        /\ s < e

Inspected(line) ==
    LET s == CHOOSE k \in 1..Len(line) : line[k] = "[" /\ \A j \in 1..(k - 1) : line[j] # "["
        e == CHOOSE k \in 1..Len(line) : line[k] = "]" /\ \A j \in 1..(k - 1) : line[j] # "]"
    IN  Strip(LowerSeq(SubSeq(line, s + 1, e - 1)))

KnownLine(line) == HasInspected(line) /\ Inspected(line) \in KnownCues

\* C9: a line yields a cue exactly when its inspected bracket token,
\* lower-cased and trimmed, is in the vocabulary; the cue carries the line's
\* 0-based index, the token and its description; cues come in line order.
C9_CueIffKnown ==
    parsed = "yes" =>
        /\ \A k \in 1..Len(Lines) :
              KnownLine(Lines[k]) <=> (\E n \in 1..Len(cues) : cues[n].line = k - 1)
        /\ \A n \in 1..Len(cues) :
              /\ cues[n].line \in 0..(Len(Lines) - 1)
              /\ cues[n].cue = Inspected(Lines[cues[n].line + 1])
              /\ cues[n].prompt = sfx_mapping[cues[n].cue]
        /\ \A n \in 1..(Len(cues) - 1) : cues[n].line < cues[n + 1].line

C9_Witness ==
    /\ parsed = "yes"
    /\ Len(Lines) = 3
    /\ ~HasInspected(Lines[1])
    /\ KnownLine(Lines[2])
    /\ HasInspected(Lines[3]) /\ ~KnownLine(Lines[3])
    /\ Len(cues) = 1
    /\ cues[1].line = 1

\* C10: on the episode example the parser yields the three turns Joe, Alex,
\* Joe (the title line in none, the bracketed cue kept in the third turn's
\* text) and the scanner yields the single cue "mic drop" at line index 3.
C10_EpisodeExample ==
    (parsed = "yes" /\ transcript = EpisodeExample) =>
        /\ turns = << [speaker |-> "host1", text |-> <<"Hi", " ", "there">>],
                      [speaker |-> "host2", text |-> <<"Hello", " ", "Joe">>],
                      [speaker |-> "host1",
                       text |-> <<"[", "mic", " ", "drop", "]", " ", "Great", " ", "talk">>] >>
        /\ cues = << [line |-> 3, cue |-> <<"mic", " ", "drop">>,
                      prompt |-> "mic drop sound effect"] >>

C10_Witness ==
    /\ parsed = "yes"
    /\ transcript = EpisodeExample
    /\ Len(turns) = 3
    /\ Len(cues) = 1

(***************************************************************************)
(* Properties of generate_audio (Spec)                                     *)
(***************************************************************************)
Succeeded(call) == call.result = SegmentPath

Failed(call) == call.result # SegmentPath /\ call.result # <<"pending">>

SomeCallFailed == \E k \in 1..Len(calls) : Failed(calls[k])

\* C1: the voice calls are made in transcript turn order, each only after
\* every earlier call returned success; once a call has failed no further call
\* is made and the invocation ends in failure.
C1_InOrderFailFast ==
    /\ \A k \in 1..Len(calls) :
          \A j \in 1..(k - 1) :
              /\ calls[j].turn < calls[k].turn
              /\ Succeeded(calls[j])
    /\ (pc = "done" /\ SomeCallFailed) => ret = "None"

C3_NoOutputAfterVoiceFailure ==
    (pc = "done" /\ SomeCallFailed) => output_file = "absent"

\* C4: the value returned for a synthesis failure (an abort at turn N, recorded
\* in errors) tells it from the no-dialogue failure.
C4_FailureKindsDistinguished ==
    (pc = "done" /\ errors # <<>>) => ret # NoDialogueValue

\* C5: every value generate_audio returns is None or output_path with a
\* non-empty audio file at that path.
C5_NoneOrOutputFile ==
    pc = "done" => (ret = "None" \/ (ret = OutputPath /\ output_file = "audio"))

\* the positions of the concatenated track that hold a turn's audio
SegmentPositions == { p \in 1..Len(combined) : combined[p].kind = "segment" }

\* C11: in the concatenated track the audio of turn i precedes the audio of
\* turn j whenever i < j and both contribute a segment.
C11_TurnOrderPreserved ==
    \A p, q \in SegmentPositions :
        p < q => combined[p].seg < combined[q].seg

C11_Witness ==
    /\ pc = "done"
    /\ ret = OutputPath
    /\ Len(dialogue_turns) = 3
    /\ Cardinality(SegmentPositions) = 3

\* two generate_sfx calls of the invocation with the same description, the
\* second one returned
SamePromptCalls ==
    { <<j, k>> \in (1..Len(sfx_calls)) \X (1..Len(sfx_calls)) :
         /\ j < k
         /\ sfx_calls[j].prompt = sfx_calls[k].prompt
         /\ sfx_calls[k].result # "pending" }

\* C12 as stated: of two successive generate_sfx calls with the same
\* description the second returns the cached path without a network request.
C12_SecondCallCached ==
    \A c \in SamePromptCalls :
        /\ ~sfx_calls[c[2]].sent
        /\ sfx_calls[c[2]].result = "cache_path"

\* C12 amended: when a generate_sfx call returned a path, the next call with
\* the same description makes no network request and returns the cached path
\* (so the two make at most one request).
C12_CachedAfterSuccess ==
    \A c \in SamePromptCalls :
        sfx_calls[c[1]].result = "cache_path" =>
            /\ ~sfx_calls[c[2]].sent
            /\ sfx_calls[c[2]].result = "cache_path"

C12_Witness ==
    \E c \in SamePromptCalls :
        /\ sfx_calls[c[1]].sent
        /\ sfx_calls[c[1]].result = "cache_path"
        /\ ~sfx_calls[c[2]].sent
        /\ sfx_calls[c[2]].result = "cache_path"

\* the invocation went through insert_sfx_into_audio and has returned
EffectStageDone == pc = "done" /\ sfx_cues # <<>> /\ main_audio_path = OutputPath

\* the k-th generate_sfx call of the invocation produced a clip that loads
ClipProduced(k) ==
    /\ sfx_calls[k].result = "cache_path"
    /\ cache[sfx_calls[k].prompt] = "audio"

\* C13: a cue whose effect synthesis fails is skipped: every cue of the script
\* is still attempted, every cue whose clip was produced is overlaid, and the
\* episode is returned.
C13_FailingEffectSkipped ==
    EffectStageDone =>
        /\ Len(sfx_calls) = Len(sfx_cues)
        /\ \A k \in 1..Len(sfx_calls) :
              ClipProduced(k) =>
                  \E o \in 1..Len(overlays) : overlays[o].line = sfx_cues[k].line
        /\ ret = OutputPath

\* generate_audio has been called and has not returned
Running == pc \notin {"idle", "done"}

\* C14: every generate_audio invocation eventually reaches a terminal outcome,
\* also when an upstream service never responds.
C14_EveryInvocationEnds == Running ~> (pc = "done")

\* C15: zero retries: within one invocation at most one voice request is made
\* per dialogue turn and at most one effect request per sound cue (the k-th
\* generate_sfx call is the one for the k-th cue), whatever the outcomes.
C15_NoRetries ==
    /\ \A j, k \in 1..Len(calls) : j # k => calls[j].turn # calls[k].turn
    /\ Len(calls) <= Len(dialogue_turns)
    /\ Len(sfx_calls) <= Len(sfx_cues)
    /\ \A k \in 1..Len(sfx_calls) : sfx_calls[k].prompt = sfx_cues[k].prompt

C15_Witness ==
    /\ pc = "done"
    /\ Len(sfx_cues) = 2
    /\ Len(sfx_calls) = 2
    /\ sfx_calls[1].sent /\ sfx_calls[1].result = "None"
    /\ sfx_calls[2].sent /\ sfx_calls[2].result = "None"
    /\ Len(calls) = 2

\* the voice id of a text_to_speech call is a str that is empty or shorter
\* than 5 characters after cleaning
BadVoice(call) ==
    /\ call.voice # NotAString
    /\ (clean_env_var(call.voice) = "" \/ StrLen(clean_env_var(call.voice)) < 5)

\* C16: text_to_speech with a voice id that is empty or too short after
\* cleaning returns the validation failure, sends no request and leaves no
\* segment file for the turn.
C16_InvalidVoiceNoRequest ==
    \A k \in 1..Len(calls) :
        BadVoice(calls[k]) =>
            /\ ~calls[k].sent
            /\ calls[k].result = ErrInvalidVoice
            /\ \A f \in scratch : f.seg # calls[k].turn

C16_Witness ==
    /\ pc = "done"
    /\ Len(calls) = 2
    /\ Succeeded(calls[1])
    /\ calls[2].voice = "'abc' # short"
    /\ ~calls[2].sent
    /\ calls[2].result = ErrInvalidVoice
    /\ ret = "None"

\* the response to a voice request had status 200 and a zero-length body
EmptyBody(call) == call.response \in {"200_empty", "200_empty_bad_detail"}

\* C17: a 200 response with a zero-length body is a failure: text_to_speech
\* returns an error message, no segment file is written for the turn, and the
\* assembly aborts at that turn.
C17_EmptyBodyIsFailure ==
    \A k \in 1..Len(calls) :
        EmptyBody(calls[k]) =>
            /\ calls[k].result \in {ErrEmptyContent, ErrDuringCall}
            /\ \A f \in scratch : f.seg # calls[k].turn
            /\ calls[k].turn \notin Range(segment_files)
            /\ k = Len(calls)
            /\ pc = "done"
            /\ ret = "None"
            /\ errors # <<>> /\ errors[Len(errors)].turn = calls[k].turn

C17_Witness ==
    /\ pc = "done"
    /\ Len(calls) = 2
    /\ Succeeded(calls[1])
    /\ calls[2].response = "200_empty"
    /\ calls[2].result = ErrEmptyContent
    /\ ret = "None"

\* the sum of the durations of the segments listed in files
RECURSIVE SegmentsMs(_)
SegmentsMs(files) ==
    IF files = <<>> THEN 0 ELSE SegmentMs(Head(files)) + SegmentsMs(Tail(files))

\* every segment handed to concatenate_audio_pydub was loaded into the track
AllDecoded ==
    /\ combined # <<>>
    /\ Cardinality(SegmentPositions) = Len(segment_files)

\* C19: when all n segments decode, the duration of the concatenated track is
\* the sum of the n segment durations plus (n - 1) times the 250 ms silence.
C19_DurationIsSumPlusSilences ==
    AllDecoded =>
        TrackMs(combined) = SegmentsMs(segment_files) + (Len(segment_files) - 1) * SilenceMs

C19_Witness ==
    /\ pc = "done"
    /\ ret = OutputPath
    /\ Len(segment_files) = 3
    /\ AllDecoded
    /\ TrackMs(combined) = SegmentMs(1) + SilenceMs + SegmentMs(2) + SilenceMs + SegmentMs(3)

\* the positions of the concatenated track that hold the inserted silence
SilencePositions == { p \in 1..Len(combined) : combined[p].kind = "silence" }

\* C20: the track never ends with the inserted silence and holds exactly
\* k - 1 silences for k included segments, also when a segment is skipped for
\* a decode failure.
C20_SilenceOnlyBetween ==
    combined # <<>> =>
        /\ combined[Len(combined)].kind = "segment"
        /\ Cardinality(SilencePositions) = Cardinality(SegmentPositions) - 1

\* the loop over the turns ended with segments and concatenate_audio_pydub
\* has returned
ConcatRan ==
    /\ pc \in {"sfx", "sfx_wait", "done"}
    /\ segment_files # <<>>
    /\ turn_i > Len(dialogue_turns)

\* the turns whose segment is in the concatenated track
IncludedTurns == { combined[p].seg : p \in SegmentPositions }

\* a segment that does not load is skipped and the segments that load are all
\* in the track: the body of a "200_audio" response loads, that of a
\* "200_garbage" response does not
LoadableIncluded ==
    \A k \in 1..Len(calls) :
        /\ calls[k].response = "200_audio" => calls[k].turn \in IncludedTurns
        /\ calls[k].response = "200_garbage" => calls[k].turn \notin IncludedTurns

\* C21 as stated: undecodable segments are skipped, the others concatenated,
\* and concatenation fails, exporting nothing to output_path, exactly when no
\* segment could be included.
C21_FailsIffNothingIncluded ==
    ConcatRan =>
        /\ LoadableIncluded
        /\ (main_audio_path # OutputPath) <=> (combined = <<>>)
        /\ combined = <<>> => output_writes = 0

\* C21 amended: undecodable segments are skipped and the others concatenated;
\* when no segment could be included concatenation fails and exports nothing
\* to output_path; otherwise it fails only when the export raises.
C21_FailsWhenNothingIncludedOrExportRaises ==
    ConcatRan =>
        /\ LoadableIncluded
        /\ combined = <<>> => (main_audio_path = ErrConcatEmpty /\ output_writes = 0)
        /\ combined # <<>> => main_audio_path \in {OutputPath, ErrConcatDuring}

C21_Witness ==
    /\ pc = "done"
    /\ Len(calls) = 3
    /\ calls[1].response = "200_audio"
    /\ calls[2].response = "200_garbage"
    /\ calls[3].response = "200_audio"
    /\ IncludedTurns = {1, 3}
    /\ ret = OutputPath

\* C22: whenever text_to_speech returns anything other than the segment path,
\* _generate_main_audio aborts at that call and the turn's segment is not in
\* the list that is concatenated.
C22_NonPathResultAborts ==
    \A k \in 1..Len(calls) :
        Failed(calls[k]) =>
            /\ k = Len(calls)
            /\ pc = "done"
            /\ ret = "None"
            /\ calls[k].turn \notin Range(segment_files)

\* the index of the first "[" of a line, 0 when there is none
FirstOpen(line) == Find(line, "[")

\* the index of the first "]" after the first "[", 0 when there is none
FirstCloseAfterOpen(line) ==
    IF FirstOpen(line) = 0 THEN 0 ELSE FindFrom(line, "]", FirstOpen(line) + 1)

\* the text between the first "[" and the first "]" that follows it,
\* lower-cased and trimmed
PairToken(line) ==
    Strip(LowerSeq(SubSeq(line, FirstOpen(line) + 1, FirstCloseAfterOpen(line) - 1)))

\* the line has a "[" followed later by a "]" and the text of this first pair
\* is in the vocabulary
KnownPair(line) == FirstCloseAfterOpen(line) > 0 /\ PairToken(line) \in KnownCues

\* C23: for every line with a "[" followed later by a "]" the text between
\* the first "[" and the first "]" after it is inspected (a "]" before the
\* first "[" hides nothing), and a line yields at most one cue.
C23_FirstPairInspected ==
    parsed = "yes" =>
        /\ \A k \in 1..Len(Lines) :
              KnownPair(Lines[k]) <=> (\E n \in 1..Len(cues) : cues[n].line = k - 1)
        /\ \A n, q \in 1..Len(cues) : n # q => cues[n].line # cues[q].line

\* generate_audio has returned and the parser had returned no turns
NoDialogueDone == pc = "done" /\ dialogue_turns = <<>>

\* C24: when the parser returns no turns, generate_audio fails without any
\* voice or effect request, without a scratch directory and without writing
\* to output_path.
C24_NoDialogueNoEffects ==
    NoDialogueDone =>
        /\ ret = "None"
        /\ calls = <<>>
        /\ sfx_calls = <<>>
        /\ temp_dir = FALSE
        /\ scratch = {}
        /\ output_writes = 0

C24_Witness ==
    /\ NoDialogueDone
    /\ runs = 2
    /\ job.script = ScanExample
    /\ ret = "None"
    /\ output_file = "audio"

\* line p is a speaker line with no text after the label and no unlabelled
\* text before the next speaker line or the end of input
BareSpeakerLine(lines, p) ==
    /\ SpeakerOf(lines[p]) # "None"
    /\ Blank(SaidOn(lines[p]))
    /\ ContinuationText(lines, p + 1) = <<>>

\* the speaker lines that carry text, their own or on continuation lines
SpeakerLinesWithText ==
    { p \in 1..Len(Lines) : SpeakerOf(Lines[p]) # "None" /\ ~BareSpeakerLine(Lines, p) }

\* C25: extract_dialogue emits no turn whose text is empty after trimming; a
\* speaker line with no text and no continuation lines produces no turn (the
\* other speaker lines produce one each).
C25_NoEmptyTurns ==
    parsed = "yes" =>
        /\ \A k \in 1..Len(turns) : Strip(turns[k].text) # <<>>
        /\ Len(turns) = Cardinality(SpeakerLinesWithText)

C25_Witness ==
    /\ parsed = "yes"
    /\ Len(Lines) = 3
    /\ BareSpeakerLine(Lines, 1)
    /\ SpeakerOf(Lines[2]) # "None" /\ ~Blank(SaidOn(Lines[2]))
    /\ BareSpeakerLine(Lines, 3)
    /\ Len(turns) = 1

\* the trimmed unlabelled non-empty lines from line k up to the next speaker
\* line or the end of input, one piece per line
RECURSIVE UnlabelledPieces(_, _)
UnlabelledPieces(lines, k) ==
    IF k > Len(lines) \/ SpeakerOf(lines[k]) # "None" THEN <<>>
    ELSE IF Blank(lines[k]) THEN UnlabelledPieces(lines, k + 1)
    ELSE << Strip(lines[k]) >> \o UnlabelledPieces(lines, k + 1)

\* the pieces of the turn opened by speaker line p: the trimmed text after
\* its label, when there is any, then its unlabelled lines
TurnPieces(lines, p) ==
    (IF Blank(SaidOn(lines[p])) THEN <<>> ELSE << Strip(SaidOn(lines[p])) >>)
        \o UnlabelledPieces(lines, p + 1)

\* the pieces joined with one space between neighbours
RECURSIVE SpaceJoin(_)
SpaceJoin(pieces) ==
    IF pieces = <<>> THEN <<>>
    ELSE IF Len(pieces) = 1 THEN pieces[1]
    ELSE pieces[1] \o <<" ">> \o SpaceJoin(Tail(pieces))

\* the k-th smallest element of a finite set of numbers
KthOf(set, k) == CHOOSE p \in set : Cardinality({ q \in set : q <= p }) = k

\* C26: each emitted turn's text is the single-space join of the trimmed text
\* after its label and the trimmed unlabelled non-empty lines that follow, up
\* to the next speaker line; unlabelled lines before the first speaker line
\* belong to no turn.
C26_TurnTextIsSpaceJoin ==
    parsed = "yes" =>
        /\ Len(turns) = Cardinality(SpeakerLinesWithText)
        /\ \A k \in 1..Len(turns) :
              LET p == KthOf(SpeakerLinesWithText, k)
              IN  /\ turns[k].speaker = SpeakerOf(Lines[p])
                  /\ turns[k].text = SpaceJoin(TurnPieces(Lines, p))

C26_Witness ==
    /\ parsed = "yes"
    /\ Len(Lines) = 3
    /\ SpeakerOf(Lines[1]) = "None" /\ ~Blank(Lines[1])
    /\ SpeakerOf(Lines[2]) # "None" /\ ~Blank(SaidOn(Lines[2]))
    /\ SpeakerOf(Lines[3]) = "None" /\ ~Blank(Lines[3])
    /\ Len(turns) = 1
    /\ turns[1].text = Strip(SaidOn(Lines[2])) \o <<" ">> \o Strip(Lines[3])

\* C27: with two invocations running at the same time, every path
\* generate_sfx returns refers to a completely written clip when it is
\* returned and used: no invocation decodes a partly written or truncated
\* cache file.
C27_ReturnedClipComplete ==
    \A p \in Invokers :
        /\ invocation[p].at = "load" => Complete(cache_files[PromptOf(p)])
        /\ \A k \in 1..Len(invocation[p].loaded) : invocation[p].loaded[k].complete

\* the voice id the caller passed for the speaker of call c, the name of
\* that speaker's host, and the legacy and default ids of that host
SuppliedFor(c) ==
    IF dialogue_turns[c.turn].speaker = "host1" THEN job.voice1_id ELSE job.voice2_id

HostOf(c) ==
    IF dialogue_turns[c.turn].speaker = "host1" THEN job.host1_name ELSE job.host2_name

IsLegacyHost(c) ==
    IF dialogue_turns[c.turn].speaker = "host1"
    THEN LowerSeq(job.host1_name) = <<"joe", " ", "rogan">>
    ELSE LowerSeq(job.host2_name) = <<"alex", " ", "cooper">>

LegacyFor(c) ==
    IF dialogue_turns[c.turn].speaker = "host1" THEN joe_rogan_voice_id
    ELSE alex_cooper_voice_id

DefaultFor(c) ==
    IF dialogue_turns[c.turn].speaker = "host1" THEN default_voice_1 ELSE default_voice_2

Supplied(v) == v \notin {"None", ""}

\* C28: every voice request for a host1 turn carries the first host's voice
\* identity and every one for a host2 turn the second host's: the id the
\* caller passed if there is one, else the legacy id when the host's name is
\* "joe rogan" / "alex cooper" in any case, else the default id.
C28_VoiceByPriority ==
    \A k \in 1..Len(calls) :
        calls[k].sent =>
            calls[k].voice =
                IF Supplied(SuppliedFor(calls[k])) THEN SuppliedFor(calls[k])
                ELSE IF IsLegacyHost(calls[k]) THEN LegacyFor(calls[k])
                ELSE DefaultFor(calls[k])

\* requests of one invocation with a legacy host: the first host's turn is
\* sent with the id the caller passed, the second host's with the legacy id
C28_Witness ==
    /\ Len(calls) = 2
    /\ calls[1].sent /\ calls[2].sent
    /\ IsLegacyHost(calls[1]) /\ IsLegacyHost(calls[2])
    /\ dialogue_turns[calls[1].turn].speaker = "host1"
    /\ dialogue_turns[calls[2].turn].speaker = "host2"
    /\ Supplied(job.voice1_id) /\ calls[1].voice = job.voice1_id
    /\ ~Supplied(job.voice2_id) /\ calls[2].voice = alex_cooper_voice_id

\* text_to_speech call c ended by raising to its caller
Raised(c) == c.result = <<"raised">>

\* every request that was answered, whatever the answer, ended in a returned
\* value: the segment path or a message
SentCallsReturn ==
    \A k \in 1..Len(calls) : calls[k].sent => ~Raised(calls[k])

\* generate_sfx returns the cache path or None
SfxCallsReturn ==
    \A k \in 1..Len(sfx_calls) : sfx_calls[k].result \in {"pending", "cache_path", "None"}

\* generate_audio, once over, has returned a value
GenerateAudioReturns ==
    pc = "done" => ret \in {"None", OutputPath, ErrConcatEmpty, ErrConcatDuring}

\* C29: text_to_speech, generate_sfx and generate_audio report every upstream
\* outcome as a returned value, and none of them ever propagates an exception
\* to its caller.
C29_NoExceptionPropagates ==
    /\ SentCallsReturn
    /\ SfxCallsReturn
    /\ GenerateAudioReturns
    /\ \A k \in 1..Len(calls) : ~Raised(calls[k])

\* the lines of the script of the running invocation
ScriptLines == SplitLines(job.script)

\* overlay o is the effect of the cue on script line l (counted from 0)
CueOnLine(o, l) ==
    /\ l \in 0..(Len(ScriptLines) - 1)
    /\ KnownLine(ScriptLines[l + 1])
    /\ o.prompt = sfx_mapping[Inspected(ScriptLines[l + 1])]

\* C30: each effect clip that was produced is overlaid at line_index * 2000
\* ms, line_index being the 0-based index of the cue's line in the script,
\* and the overlays are made in ascending line-index order.
C30_OverlayAtLineOffset ==
    /\ \A k \in 1..Len(overlays) :
          \E l \in 0..(Len(ScriptLines) - 1) :
              /\ CueOnLine(overlays[k], l)
              /\ overlays[k].line = l
              /\ overlays[k].position_ms = l * 2000
    /\ \A j, k \in 1..Len(overlays) :
          j < k => overlays[j].position_ms < overlays[k].position_ms
    /\ \A k \in 1..Len(sfx_calls) :
          ClipProduced(k) =>
              \E o \in 1..Len(overlays) :
                  /\ overlays[o].prompt = sfx_calls[k].prompt
                  /\ overlays[o].position_ms = sfx_cues[k].line * 2000

\* two clips overlaid, the second on a later line than line 0
C30_Witness ==
    /\ Len(overlays) = 2
    /\ overlays[1].position_ms = 0
    /\ overlays[2].position_ms = 2000
    /\ sfx_calls[1].sent /\ sfx_calls[2].sent
    /\ pc = "done" /\ ret = OutputPath

====
